---- MODULE Spec2Model ----
(***************************************************************************)
(* rsvp.pizza, package pizza: the allow-list check IsFriendAllowed with    *)
(* its negative and positive caches, the submit handler that uses it, the  *)
(* cached name lookup, and the calendar credential watch loop.             *)
(*                                                                         *)
(* Time is counted in minutes.  The Cache type (NewCache, Has, Get, Store) *)
(* is declared in a file that is not part of src/; it is modelled from     *)
(* section 4.1 and section 5 of the specification.                         *)
(***************************************************************************)
EXTENDS Integers, Sequences, FiniteSets, TLC

\* ------------------------------------------------------------- bounds
\* how many times the clock advances in one behaviour
MaxTicks == 1
\* how many remote additions/removals of identities happen in one behaviour
MaxChanges == 1
\* the watch loop: largest period, largest check latency, end of the clock
MaxPeriod == 3
MaxLatency == 4
MaxWatchTime == 9

\* ------------------------------------------------- program constants
\* NewCache[bool](5*time.Minute, nil)
NegTTL == 5
\* NewCache(24*time.Hour, GetFriendName), in minutes
PosTTL == 1440

\* the concurrent request handlers (one goroutine per inbound request)
Procs == {"r1", "r2"}
\* the identities of the model, already lower case (the caches treat every
\* key alike and IsFriendAllowed touches the entries of its own key only)
Keys == {"a@x.com"}
\* the email form values a request can carry ("" is the missing value)
Emails == {"", "a@x.com", "A@X.COM"}
\* the steps by which the clock advances
Delays == {1, NegTTL, PosTTL}

Max(a, b) == IF a >= b THEN a ELSE b

\* strings.ToLower on the form values of the model
ToLower(e) == IF e = "A@X.COM" THEN "a@x.com" ELSE e

\* the display name the remote store holds for an identity
NameOf(k) == IF k = "a@x.com" THEN "Ann" ELSE "Bob"

\* ------------------------------------------------------- Cache[T]
NoEntry == [value |-> "none", expiresAt |-> 0]

\* NewCache(ttl, loader): an empty entry map, no load in flight
NewCache(ttl, loader) ==
    [ttl |-> ttl, loader |-> loader,
     m |-> [k \in Keys |-> NoEntry],
     flight |-> [k \in Keys |-> {}]]

\* an entry is fresh strictly before its expiration
Fresh(c, k, t) == c.m[k] # NoEntry /\ t < c.m[k].expiresAt

\* Has(key): the answer, and the cache as the call leaves it
Has(c, k, t) == [ok |-> Fresh(c, k, t), cache |-> c]

\* Store(key, value): insert or overwrite with expiration now + ttl
Store(c, k, v, t) == [c EXCEPT !.m[k] = [value |-> v, expiresAt |-> t + c.ttl]]

\* Get(key), first half, by caller p: a fresh entry is a hit; a miss with no
\* loader is NotFound; a miss while a load of the key is in flight joins it;
\* any other miss starts the one load of the key
GetBegin(c, k, p, t) ==
    IF Fresh(c, k, t)
      THEN [kind |-> "hit", val |-> c.m[k].value, err |-> "nil", cache |-> c]
    ELSE IF c.loader = "nil"
      THEN [kind |-> "notfound", val |-> "", err |-> "NotFound", cache |-> c]
    ELSE IF c.flight[k] # {}
      THEN [kind |-> "join", val |-> "", err |-> "nil",
            cache |-> [c EXCEPT !.flight[k] = @ \cup {p}]]
    ELSE [kind |-> "lead", val |-> "", err |-> "nil",
          cache |-> [c EXCEPT !.flight[k] = {p}]]

\* Get(key), second half: the loader returned res; a value is stored with a
\* new expiration, an error leaves the entry as it was; the flight ends
GetEnd(c, k, res, t) ==
    LET d == [c EXCEPT !.flight[k] = {}]
    IN  IF res.err = "nil" THEN Store(d, k, res.val, t) ELSE d

\* ------------------------------------------------------------ state
VARIABLES
    now,                  \* the clock, in minutes
    ticks,                \* how many times the clock advanced
    remote,               \* the identities the remote store holds (all_emails)
    changes,              \* how many times the remote store changed
    negativeFriendCache,
    positiveFriendCache,
    pc,                   \* each request handler's position
    email,                \* each handler's email, lower-cased
    dates,                \* each handler's date values still to process
    ifa,                  \* each handler's IsFriendAllowed call (see IfaIdle)
    getRes,               \* each handler's result of GetCachedFriendName
    path,                 \* how each handler's request ended
    did,                  \* the lookups and invites each request performed
    addedAt,              \* per identity: since when it exists remotely, -1 if not
    epoch,                \* per identity: how many times its membership changed
    negSrc,               \* per identity: when the negative entry was stored and
                          \*   the epoch of the remote answer behind it
    posSrc,               \* per identity: the epoch of the answer behind the
                          \*   positive entry
    lastFalse,            \* per identity: when the last call that was answered
                          \*   exists=false returned, -1 if none
    wpc,                  \* the watch loop's position
    period,               \* its period
    timerAt,              \* when its timer fires
    checkStart,           \* when the check under way (or the last one) started
    prevStart,            \* when the check before that started, -1 if none
    latency,              \* how long the last finished check took
    prevLatency,          \* how long the check that started at prevStart took
    wlog                  \* what the loop logged last

mainVars == <<now, ticks, remote, changes, negativeFriendCache,
              positiveFriendCache, pc, email, dates, ifa, getRes, path, did,
              addedAt, epoch, negSrc, posSrc, lastFalse>>
watchVars == <<wpc, period, timerAt, checkStart, prevStart, latency, prevLatency, wlog>>
vars == <<mainVars, watchVars>>

\* ---------------------------------------------------- remote store
Errs == {"queryErr", "decodeErr"}

\* faunaClient.Query(f.Exists(...)) followed by qRes.Get(&exists): the query
\* fails, the result does not decode, or the store answers
ExistsOutcomes(k) == Errs \cup {IF k \in remote THEN "true" ELSE "false"}

\* GetFriendName(friendEmail): the query fails (also when no document
\* matches), the name does not decode, or the name is returned
GetFriendName(k) ==
    {[val |-> "", err |-> e, epoch |-> -1] : e \in Errs}
    \cup (IF k \in remote
            THEN {[val |-> NameOf(k), err |-> "nil", epoch |-> epoch[k]]}
            ELSE {})

\* newFaunaClient: the two friend caches
newFaunaClientSwapped ==
    [positive |-> NewCache(NegTTL, "GetFriendName"),
     negative |-> NewCache(PosTTL, "nil")]
newFaunaClient ==
    [positive |-> NewCache(PosTTL, "GetFriendName"),
     negative |-> NewCache(NegTTL, "nil")]

\* ------------------------------------------------- request handlers
\* the date form values and strconv.ParseInt(d, 10, 64) on them
DateValues == {"1700000000", "friday"}
ParseOk(d) == d = "1700000000"
DateInputs == {<<d>> : d \in DateValues}

\* the record of one IsFriendAllowed call.  What held when it started:
\* negAtStart (a fresh entry in the negative cache), posAtStart (a fresh entry
\* in the positive cache, and fresh ever since while the call runs),
\* inWindow (less than NegTTL after a call answered exists=false returned),
\* late (the identity in the remote store for NegTTL or longer), startEpoch.
\* What it did: calls (remote calls issued), outcome (the remote answer),
\* answerEpoch.  What it returned: ok, err, done.  On return posFresh says
\* whether the positive entry was fresh from the start of the call to its end.
IfaIdle ==
    [negAtStart |-> FALSE, posAtStart |-> FALSE, posFresh |-> FALSE,
     inWindow |-> FALSE, late |-> FALSE, startEpoch |-> -1,
     calls |-> 0, outcome |-> "none", answerEpoch |-> -1,
     ok |-> FALSE, err |-> "nil", done |-> FALSE]
NoRes == [val |-> "", err |-> "none", epoch |-> -1]

\* HandleSubmit's test of IsFriendAllowed's result
CheckAllowedFailOpen(ok, err) ==
    IF err # "nil" THEN "Handle500" ELSE "proceed"
CheckAllowed(ok, err) ==
    IF ~ok THEN (IF err # "nil" THEN "Handle500" ELSE "Handle4xx")
    ELSE "proceed"

\* the request of p ends in the handler h ("ok": the page was rendered)
Ends(p, h) ==
    /\ pc' = [pc EXCEPT ![p] = "idle"]
    /\ path' = [path EXCEPT ![p] = h]
    /\ dates' = [dates EXCEPT ![p] = <<>>]
    /\ email' = [email EXCEPT ![p] = ""]
    /\ getRes' = [getRes EXCEPT ![p] = NoRes]

\* IsFriendAllowed returns (ok, err) to HandleSubmit; posc is the positive
\* cache at the return
IfaReturn(p, rec, ok, err, posc) ==
    /\ ifa' = [ifa EXCEPT ![p] =
                 [rec EXCEPT !.ok = ok, !.err = err, !.done = TRUE,
                             !.answerEpoch = -1,
                             !.posAtStart = FALSE,
                             !.posFresh = rec.posAtStart /\ Fresh(posc, email[p], now)]]
    /\ pc' = [pc EXCEPT ![p] = "ifaRet"]
    /\ UNCHANGED <<path, dates, getRes>>

\* HandleSubmit's test of what IsFriendAllowed returned: the request ends in
\* Handle500 or Handle4xx, or goes on to the dates; of the call's record the
\* returned pair is kept
Check(p) ==
    /\ pc[p] = "ifaRet"
    /\ ifa' = [ifa EXCEPT ![p] =
                 [IfaIdle EXCEPT !.ok = ifa[p].ok, !.err = ifa[p].err, !.done = TRUE]]
    /\ IF CheckAllowed(ifa[p].ok, ifa[p].err) = "proceed"
         THEN /\ pc' = [pc EXCEPT ![p] = "loop"]
              /\ UNCHANGED <<path, dates, getRes, email>>
         ELSE Ends(p, CheckAllowed(ifa[p].ok, ifa[p].err))
    /\ UNCHANGED <<now, ticks, remote, changes, negativeFriendCache,
                   positiveFriendCache, did, addedAt, epoch, negSrc,
                   posSrc, lastFalse>>

\* HandleSubmit up to the call of IsFriendAllowed: the template, the date and
\* email form values, the lower-casing
HandleSubmit(p) ==
    /\ pc[p] = "idle"
    /\ \/ \* template.ParseFiles fails
          /\ path' = [path EXCEPT ![p] = "Handle500"]
          /\ UNCHANGED <<pc, email, dates>>
       \/ \* no date value, or an empty email value
          /\ \E hasDate \in BOOLEAN, e \in Emails : ~hasDate \/ e = ""
          /\ path' = [path EXCEPT ![p] = "Handle4xx"]
          /\ UNCHANGED <<pc, email, dates>>
       \/ \E e \in Emails \ {""}, ds \in DateInputs :
            /\ path' = [path EXCEPT ![p] = "none"]
            /\ pc' = [pc EXCEPT ![p] = "ifaNeg"]
            /\ email' = [email EXCEPT ![p] = ToLower(e)]
            /\ dates' = [dates EXCEPT ![p] = ds]
    /\ ifa' = [ifa EXCEPT ![p] = IfaIdle]
    /\ getRes' = [getRes EXCEPT ![p] = NoRes]
    /\ did' = [did EXCEPT ![p] = {}]
    /\ UNCHANGED <<now, ticks, remote, changes, negativeFriendCache,
                   positiveFriendCache, addedAt, epoch, negSrc, posSrc, lastFalse>>

\* the result of IsFriendAllowed on a negative hit and on a positive hit
IfaNegResult == [ok |-> FALSE, err |-> "nil"]
IfaPosResultFalse == [ok |-> FALSE, err |-> "nil"]
IfaPosResult == [ok |-> TRUE, err |-> "nil"]

\* IsFriendAllowed, first test: negativeFriendCache.Has(friendEmail)
IfaNeg(p) ==
    /\ pc[p] = "ifaNeg"
    /\ LET k == email[p]
           h == Has(negativeFriendCache, k, now)
           rec == [ifa[p] EXCEPT
                     !.negAtStart = Fresh(negativeFriendCache, k, now),
                     !.posAtStart = Fresh(positiveFriendCache, k, now),
                     !.inWindow = lastFalse[k] >= 0 /\ now < lastFalse[k] + NegTTL,
                     !.late = addedAt[k] >= 0 /\ now >= addedAt[k] + NegTTL,
                     !.startEpoch = epoch[k]]
       IN  /\ negativeFriendCache' = h.cache
           /\ positiveFriendCache' = positiveFriendCache
           /\ IF h.ok
                THEN IfaReturn(p, rec, IfaNegResult.ok, IfaNegResult.err,
                               positiveFriendCache)
                ELSE /\ ifa' = [ifa EXCEPT ![p] = rec]
                     /\ pc' = [pc EXCEPT ![p] = "ifaPos"]
                     /\ UNCHANGED <<path, dates, getRes>>
    /\ UNCHANGED <<now, ticks, remote, changes, email, did,
                   addedAt, epoch, negSrc, posSrc, lastFalse>>

\* the look into the positive cache: Has, not Get
PosGet(c, k, t) ==
    IF Fresh(c, k, t) \/ k \notin remote THEN [ok |-> Fresh(c, k, t), cache |-> c]
    ELSE [ok |-> TRUE, cache |-> Store(c, k, NameOf(k), t)]
PosHas(c, k, t) == Has(c, k, t)

\* IsFriendAllowed, second test: positiveFriendCache.Has(friendEmail)
IfaPos(p) ==
    /\ pc[p] = "ifaPos"
    /\ LET k == email[p]
           h == PosHas(positiveFriendCache, k, now)
       IN  /\ positiveFriendCache' = h.cache
           /\ negativeFriendCache' = negativeFriendCache
           /\ IF h.ok
                THEN IfaReturn(p, ifa[p], IfaPosResult.ok, IfaPosResult.err, h.cache)
                ELSE /\ pc' = [pc EXCEPT ![p] = "ifaQuery"]
                     /\ UNCHANGED <<ifa, path, dates, getRes>>
    /\ UNCHANGED <<now, ticks, remote, changes, email, did,
                   addedAt, epoch, negSrc, posSrc, lastFalse>>

\* whether IsFriendAllowed returns (false, err) after the remote check
QueryReturnsNever(outcome) == FALSE
QueryReturns(outcome) == outcome \in Errs

\* IsFriendAllowed, the remote existence check and its two error returns
IfaQuery(p) ==
    /\ pc[p] = "ifaQuery"
    /\ \E out \in ExistsOutcomes(email[p]) :
         LET rec == [ifa[p] EXCEPT !.calls = @ + 1, !.outcome = out,
                                   !.answerEpoch = epoch[email[p]]]
         IN  IF QueryReturns(out)
               THEN IfaReturn(p, rec, FALSE, out, positiveFriendCache)
               ELSE /\ ifa' = [ifa EXCEPT ![p] = rec]
                    /\ pc' = [pc EXCEPT ![p] = "ifaStore"]
                    /\ UNCHANGED <<path, dates, getRes>>
    /\ UNCHANGED <<now, ticks, remote, changes, negativeFriendCache,
                   positiveFriendCache, email, did,
                   addedAt, epoch, negSrc, posSrc, lastFalse>>

\* what IsFriendAllowed does to the negative cache once exists is known
AfterQueryNever(c, k, exists, t) == c
AfterQueryAlways(c, k, exists, t) == Store(c, k, "false", t)
AfterQuery(c, k, exists, t) == IF ~exists THEN Store(c, k, "false", t) ELSE c

\* IsFriendAllowed, the end: store a negative answer, return (exists, nil)
IfaStore(p) ==
    /\ pc[p] = "ifaStore"
    /\ LET k == email[p]
           exists == ifa[p].outcome = "true"
           negc == AfterQuery(negativeFriendCache, k, exists, now)
       IN  /\ negativeFriendCache' = negc
           /\ positiveFriendCache' = positiveFriendCache
           /\ negSrc' = IF negc.m[k] # negativeFriendCache.m[k] \/ ~exists
                          THEN [negSrc EXCEPT ![k] =
                                  [epoch |-> ifa[p].answerEpoch, storedAt |-> now]]
                          ELSE negSrc
           /\ lastFalse' = IF ifa[p].outcome = "false"
                             THEN [lastFalse EXCEPT ![k] = now]
                             ELSE lastFalse
           /\ IfaReturn(p, ifa[p], exists, "nil", positiveFriendCache)
    /\ UNCHANGED <<now, ticks, remote, changes, email, did,
                   addedAt, epoch, posSrc>>

\* GetCachedFriendName(friendEmail): positiveFriendCache.Get(friendEmail)
GetFriendNameDirect(p) ==
    /\ positiveFriendCache' = positiveFriendCache
    /\ pc' = [pc EXCEPT ![p] = "getLoad"]
    /\ getRes' = getRes
GetCachedFriendName(p) ==
    LET g == GetBegin(positiveFriendCache, email[p], p, now)
    IN  /\ positiveFriendCache' = g.cache
        /\ pc' = [pc EXCEPT ![p] =
                    CASE g.kind = "lead" -> "getLoad"
                      [] g.kind = "join" -> "getWait"
                      [] OTHER -> "getDone"]
        /\ getRes' = [getRes EXCEPT ![p] =
                        IF g.kind \in {"hit", "notfound"}
                          THEN [val |-> g.val, err |-> g.err, epoch |-> -1]
                          ELSE @]

\* HandleSubmit, the head of the loop over the dates: ParseInt, then the name
\* lookup; after the last date the page is rendered
Loop(p) ==
    /\ pc[p] = "loop"
    /\ IF dates[p] = <<>>
         THEN /\ \E tplOk \in BOOLEAN : Ends(p, IF tplOk THEN "ok" ELSE "Handle500")
              /\ UNCHANGED <<positiveFriendCache, did>>
         ELSE IF ~ParseOk(Head(dates[p]))
           THEN /\ Ends(p, "Handle500")
                /\ UNCHANGED <<positiveFriendCache, did>>
           ELSE /\ GetCachedFriendName(p)
                /\ did' = [did EXCEPT ![p] = @ \cup {"lookup"}]
                /\ UNCHANGED <<path, dates, email>>
    /\ UNCHANGED <<now, ticks, remote, changes, negativeFriendCache,
                   ifa, addedAt, epoch, negSrc, posSrc, lastFalse>>

\* Get: the loader GetFriendName runs for the caller that started the load
GetLoad(p) ==
    /\ pc[p] = "getLoad"
    /\ \E res \in GetFriendName(email[p]) :
         getRes' = [getRes EXCEPT ![p] = res]
    /\ pc' = [pc EXCEPT ![p] = "getStore"]
    /\ UNCHANGED <<now, ticks, remote, changes, negativeFriendCache,
                   positiveFriendCache, email, dates, ifa, path, did, addedAt,
                   epoch, negSrc, posSrc, lastFalse>>

\* Get: the loaded value is stored and handed to every caller of the flight
GetStore(p) ==
    /\ pc[p] = "getStore"
    /\ LET k == email[p]
           res == [getRes[p] EXCEPT !.epoch = -1]
           woken == {p} \cup {q \in positiveFriendCache.flight[k] :
                                email[q] = k /\ pc[q] = "getWait"}
       IN  /\ positiveFriendCache' = GetEnd(positiveFriendCache, k, res, now)
           /\ posSrc' = IF res.err = "nil"
                          THEN [posSrc EXCEPT ![k] = getRes[p].epoch]
                          ELSE posSrc
           /\ getRes' = [q \in Procs |-> IF q \in woken THEN res ELSE getRes[q]]
           /\ pc' = [q \in Procs |-> IF q \in woken THEN "getDone" ELSE pc[q]]
    /\ UNCHANGED <<now, ticks, remote, changes, negativeFriendCache, email,
                   dates, ifa, path, did, addedAt, epoch, negSrc, lastFalse>>

\* HandleSubmit, the rest of the loop body: the error test of the name lookup,
\* then InviteToCalendarEvent, which succeeds or fails
GetDone(p) ==
    /\ pc[p] = "getDone"
    /\ IF getRes[p].err # "nil"
         THEN /\ Ends(p, "Handle500")
              /\ did' = did
         ELSE /\ did' = [did EXCEPT ![p] = @ \cup {"invite"}]
              /\ \E inviteOk \in BOOLEAN :
                   IF inviteOk
                     THEN /\ dates' = [dates EXCEPT ![p] = Tail(@)]
                          /\ getRes' = [getRes EXCEPT ![p] = NoRes]
                          /\ pc' = [pc EXCEPT ![p] = "loop"]
                          /\ UNCHANGED <<path, email>>
                     ELSE Ends(p, "Handle500")
    /\ UNCHANGED <<now, ticks, remote, changes, negativeFriendCache,
                   positiveFriendCache, ifa, addedAt,
                   epoch, negSrc, posSrc, lastFalse>>

\* ------------------------------------------------------ environment
\* an identity is added to the remote store
AddFriend(k) ==
    /\ changes < MaxChanges
    /\ k \notin remote
    /\ remote' = remote \cup {k}
    /\ changes' = changes + 1
    /\ addedAt' = [addedAt EXCEPT ![k] = now]
    /\ epoch' = [epoch EXCEPT ![k] = @ + 1]
    /\ UNCHANGED <<now, ticks, negativeFriendCache, positiveFriendCache, pc,
                   email, dates, ifa, getRes, path, did, negSrc, posSrc,
                   lastFalse>>

\* an identity is removed from the remote store
RemoveFriend(k) ==
    /\ changes < MaxChanges
    /\ k \in remote
    /\ remote' = remote \ {k}
    /\ changes' = changes + 1
    /\ addedAt' = [addedAt EXCEPT ![k] = -1]
    /\ epoch' = [epoch EXCEPT ![k] = @ + 1]
    /\ UNCHANGED <<now, ticks, negativeFriendCache, positiveFriendCache, pc,
                   email, dates, ifa, getRes, path, did, negSrc, posSrc,
                   lastFalse>>

\* time passes; an entry that expires is no longer fresh ever since the start
\* of the calls that are running
Tick(d) ==
    /\ ticks < MaxTicks
    /\ now' = now + d
    /\ ticks' = ticks + 1
    /\ ifa' = [p \in Procs |->
                IF pc[p] \in {"ifaPos", "ifaQuery", "ifaStore"}
                  THEN [ifa[p] EXCEPT !.posAtStart =
                          @ /\ Fresh(positiveFriendCache, email[p], now + d)]
                  ELSE ifa[p]]
    /\ UNCHANGED <<remote, changes, negativeFriendCache, positiveFriendCache,
                   pc, email, dates, getRes, path, did, addedAt,
                   epoch, negSrc, posSrc, lastFalse>>

NoSrc == [epoch |-> -1, storedAt |-> -1]

\* the process after newFaunaClient, with the remote store holding any of
\* the identities
MainInit ==
    /\ now = 0
    /\ ticks = 0
    /\ remote \in SUBSET Keys
    /\ changes = 0
    /\ negativeFriendCache = newFaunaClient.negative
    /\ positiveFriendCache = newFaunaClient.positive
    /\ pc = [p \in Procs |-> "idle"]
    /\ email = [p \in Procs |-> ""]
    /\ dates = [p \in Procs |-> <<>>]
    /\ ifa = [p \in Procs |-> IfaIdle]
    /\ getRes = [p \in Procs |-> NoRes]
    /\ path = [p \in Procs |-> "none"]
    /\ did = [p \in Procs |-> {}]
    /\ addedAt = [k \in Keys |-> IF k \in remote THEN 0 ELSE -1]
    /\ epoch = [k \in Keys |-> 0]
    /\ negSrc = [k \in Keys |-> NoSrc]
    /\ posSrc = [k \in Keys |-> -1]
    /\ lastFalse = [k \in Keys |-> -1]

WatchOff ==
    /\ wpc = "off"
    /\ period = 0
    /\ timerAt = 0
    /\ checkStart = 0
    /\ prevStart = -1
    /\ latency = 0
    /\ prevLatency = 0
    /\ wlog = "none"

Init == MainInit /\ WatchOff

Next ==
    \/ \E p \in Procs : HandleSubmit(p) /\ UNCHANGED watchVars
    \/ \E p \in Procs : IfaNeg(p) /\ UNCHANGED watchVars
    \/ \E p \in Procs : IfaPos(p) /\ UNCHANGED watchVars
    \/ \E p \in Procs : IfaQuery(p) /\ UNCHANGED watchVars
    \/ \E p \in Procs : IfaStore(p) /\ UNCHANGED watchVars
    \/ \E p \in Procs : Check(p) /\ UNCHANGED watchVars
    \/ \E p \in Procs : Loop(p) /\ UNCHANGED watchVars
    \/ \E p \in Procs : GetLoad(p) /\ UNCHANGED watchVars
    \/ \E p \in Procs : GetStore(p) /\ UNCHANGED watchVars
    \/ \E p \in Procs : GetDone(p) /\ UNCHANGED watchVars
    \/ \E k \in Keys : AddFriend(k) /\ UNCHANGED watchVars
    \/ \E k \in Keys : RemoveFriend(k) /\ UNCHANGED watchVars
    \/ \E d \in Delays : Tick(d) /\ UNCHANGED watchVars

Spec == Init /\ [][Next]_vars

\* ------------------------------------------------------- watch loop
\* WatchCalendar(period): time.NewTimer(period), then the first ListEvents(1)
WatchCalendar ==
    /\ wpc = "check"
    /\ period \in 1..MaxPeriod
    /\ timerAt = now + period
    /\ checkStart = now
    /\ prevStart = -1
    /\ latency = 0
    /\ prevLatency = 0
    /\ wlog = "none"

\* ListEvents(1) returns and its outcome is logged; a variant that arms the
\* timer only now, as a sleep after the check would
ListEventsReturnsThenSleep ==
    /\ wpc = "check"
    /\ \E failed \in BOOLEAN : wlog' = IF failed THEN "warn" ELSE "debug"
    /\ latency' = now - checkStart
    /\ timerAt' = now + period
    /\ wpc' = "wait"
    /\ UNCHANGED <<period, checkStart, prevStart, prevLatency>>
ListEventsReturns ==
    /\ wpc = "check"
    /\ \E failed \in BOOLEAN : wlog' = IF failed THEN "warn" ELSE "debug"
    /\ latency' = now - checkStart
    /\ wpc' = "wait"
    /\ UNCHANGED <<period, timerAt, checkStart, prevStart, prevLatency>>

\* <-timer.C, timer.Reset(period), and the next ListEvents(1) starts
TimerFires ==
    /\ wpc = "wait"
    /\ now >= timerAt
    /\ timerAt' = now + period
    /\ prevStart' = checkStart
    /\ prevLatency' = latency
    /\ checkStart' = now
    /\ wpc' = "check"
    /\ UNCHANGED <<period, latency, wlog>>

\* a minute passes: a check takes at most MaxLatency, and the loop takes the
\* timer's value as soon as it is there
WatchTick ==
    /\ now < MaxWatchTime
    /\ wpc = "check" => now - checkStart < MaxLatency
    /\ ~(wpc = "wait" /\ now >= timerAt)
    /\ now' = now + 1
    /\ UNCHANGED watchVars

InitWatch == MainInit /\ WatchCalendar

NextWatch ==
    \/ ListEventsReturns /\ UNCHANGED mainVars
    \/ TimerFires /\ UNCHANGED mainVars
    \/ WatchTick /\ UNCHANGED <<ticks, remote, changes, negativeFriendCache,
                               positiveFriendCache, pc, email, dates, ifa,
                               getRes, path, did, addedAt, epoch, negSrc,
                               posSrc, lastFalse>>

SpecWatch == InitWatch /\ [][NextWatch]_vars

\* ----------------------------------------------------------- claims
\* IsFriendAllowed has just returned to the request handler p
Returned(p) == pc[p] = "ifaRet"
Rejected(p) == ~ifa[p].ok /\ ifa[p].err = "nil"
Allowed(p) == ifa[p].ok /\ ifa[p].err = "nil"
BothFresh(k) ==
    Fresh(negativeFriendCache, k, now) /\ Fresh(positiveFriendCache, k, now)

\* C1: IsFriendAllowed never returns true together with an error; a request
\* looks up a name or sends an invite only after IsFriendAllowed returned
\* (true, nil) in that request; a request whose check returned an error ends
\* in Handle500, one whose check returned (false, nil) ends in Handle4xx
C1_FailClosed ==
    \A p \in Procs :
      /\ ifa[p].done /\ ifa[p].ok => ifa[p].err = "nil"
      /\ did[p] # {} => ifa[p].done /\ Allowed(p)
      /\ pc[p] \in {"loop", "getLoad", "getWait", "getStore", "getDone"}
           => ifa[p].done /\ Allowed(p)
      /\ pc[p] = "idle" /\ ifa[p].done /\ ifa[p].err # "nil" => path[p] = "Handle500"
      /\ pc[p] = "idle" /\ ifa[p].done /\ Rejected(p) => path[p] = "Handle4xx"

\* a request was invited and another ended in Handle500 on a failed check
C1_Witness ==
    \E p, q \in Procs :
      /\ "invite" \in did[p]
      /\ pc[q] = "idle" /\ ifa[q].done /\ ifa[q].err # "nil" /\ path[q] = "Handle500"

\* C2: a call whose remote check is answered exists=false returns
\* (false, nil), and a call that starts less than NegTTL after such a call
\* returned also returns (false, nil), with no remote call
C2_NegativeAnswerCached ==
    \A p \in Procs :
      Returned(p) =>
        /\ ifa[p].outcome = "false" => Rejected(p)
        /\ ifa[p].inWindow => Rejected(p) /\ ifa[p].calls = 0

\* a call in the window, after time has passed, was rejected from the cache
C2_Witness ==
    \E p \in Procs :
      /\ Returned(p) /\ ifa[p].inWindow /\ Rejected(p) /\ ifa[p].calls = 0
      /\ now > lastFalse[email[p]]

\* C3 as claimed: a call during which the positive cache holds a fresh entry
\* of its identity returns (true, nil) with no remote call
C3_Original ==
    \A p \in Procs :
      Returned(p) /\ ifa[p].posFresh => Allowed(p) /\ ifa[p].calls = 0

\* C3 as amended: a call during which the positive cache holds a fresh entry
\* of its identity, and at whose start the negative cache holds no fresh
\* entry of it, returns (true, nil) with no remote call
C3_PositiveHit ==
    \A p \in Procs :
      Returned(p) /\ ifa[p].posFresh /\ ~ifa[p].negAtStart
        => Allowed(p) /\ ifa[p].calls = 0

C3_Witness ==
    \E p \in Procs :
      Returned(p) /\ ifa[p].posFresh /\ ~ifa[p].negAtStart /\ Allowed(p)

\* C4: when the remote existence check fails, the call returns (false, err)
\* with that error in the same step and neither cache changes
C4_ErrorNotCached ==
    [][\A p \in Procs :
         pc[p] = "ifaQuery" /\ pc'[p] # "ifaQuery" /\ ifa'[p].outcome \in Errs
           => /\ pc'[p] = "ifaRet"
              /\ ~ifa'[p].ok /\ ifa'[p].err = ifa'[p].outcome
              /\ negativeFriendCache' = negativeFriendCache
              /\ positiveFriendCache' = positiveFriendCache]_vars

\* a check failed and the caches hold nothing for the identity
C4_Witness ==
    \E p \in Procs :
      /\ Returned(p) /\ ifa[p].outcome \in Errs /\ ifa[p].err = ifa[p].outcome
      /\ negativeFriendCache.m[email[p]] = NoEntry
      /\ positiveFriendCache.m[email[p]] = NoEntry

\* the callers whose Get of key k has a loader invocation under way
Loading(k) == {p \in Procs : email[p] = k /\ pc[p] \in {"getLoad", "getStore"}}

\* C5: at most one loader invocation per key is in flight; a Get that misses
\* while one is in flight does not invoke the loader; and every caller that
\* waits for a load gets the value or the error the load produced
C5_SingleFlight ==
    /\ [](\A k \in Keys : Cardinality(Loading(k)) <= 1)
    /\ [][\A p \in Procs :
            /\ pc[p] = "loop" /\ pc'[p] = "getLoad"
                 => \A q \in Procs \ {p} :
                      ~(email[q] = email[p] /\ pc[q] \in {"getLoad", "getStore", "getWait"})
            /\ pc[p] = "getStore" /\ pc'[p] = "getDone"
                 => \A q \in Procs :
                      email[q] = email[p] /\ pc[q] = "getWait"
                        => pc'[q] = "getDone" /\ getRes'[q] = getRes'[p]]_vars

\* two concurrent Gets of one missing key: one loads, the other waits
C5_Witness ==
    \E p, q \in Procs :
      p # q /\ email[p] = email[q] /\ pc[p] = "getLoad" /\ pc[q] = "getWait"

\* C6: the two Has calls of IsFriendAllowed change neither cache (no entry
\* added, removed or refreshed) and issue no remote call
C6_HasIsPure ==
    [][\A p \in Procs :
         pc[p] \in {"ifaNeg", "ifaPos"} /\ pc'[p] # pc[p]
           => /\ negativeFriendCache' = negativeFriendCache
              /\ positiveFriendCache' = positiveFriendCache
              /\ ifa'[p].calls = 0]_vars

\* Has has answered on an expired negative entry and on a missing positive one
C6_Witness ==
    \E p \in Procs :
      /\ pc[p] = "ifaQuery"
      /\ negativeFriendCache.m[email[p]] # NoEntry
      /\ ~Fresh(negativeFriendCache, email[p], now)

\* C8: IsFriendAllowed never changes the positive cache; it changes the
\* negative cache only by Store(k, false), and does so exactly when the remote
\* check answered exists=false; a call returns (true, nil) without a remote
\* call only once the positive cache holds an entry
C8_OnlyNegativeWrites ==
    /\ [][\A p \in Procs :
            pc[p] \in {"ifaNeg", "ifaPos", "ifaQuery", "ifaStore"} /\ pc'[p] # pc[p]
              => /\ positiveFriendCache' = positiveFriendCache
                 /\ negativeFriendCache' =
                      IF pc[p] = "ifaStore" /\ ifa[p].outcome = "false"
                        THEN Store(negativeFriendCache, email[p], "false", now)
                        ELSE negativeFriendCache]_vars
    /\ [](\A p \in Procs :
            Returned(p) /\ Allowed(p)
              => \/ ifa[p].calls = 1 /\ ifa[p].outcome = "true"
                 \/ ifa[p].calls = 0 /\ positiveFriendCache.m[email[p]] # NoEntry)

\* a call was answered exists=true and both caches are still empty
C8_Witness ==
    \E p \in Procs :
      /\ Returned(p) /\ ifa[p].outcome = "true" /\ Allowed(p)
      /\ negativeFriendCache.m[email[p]] = NoEntry
      /\ positiveFriendCache.m[email[p]] = NoEntry

\* the call of p started NegTTL or longer after its identity was added to the
\* remote store, and the identity has been there ever since
Late(p) == ifa[p].late /\ ifa[p].startEpoch = epoch[email[p]]

\* C9 as claimed: no call that starts NegTTL or longer after the identity was
\* added returns (false, nil)
C9_Original ==
    \A p \in Procs : Returned(p) /\ Late(p) => ~Rejected(p)

\* C9 as amended: a call that starts NegTTL or longer after the identity was
\* added returns (false, nil) only from a negative entry that was stored
\* after the addition, less than NegTTL before the call, by a call whose
\* remote check was answered before the addition
C9_BoundedRejection ==
    \A p \in Procs :
      Returned(p) /\ Late(p) /\ Rejected(p)
        => LET k == email[p]
           IN  /\ ifa[p].negAtStart /\ ifa[p].calls = 0
               /\ negSrc[k].storedAt > addedAt[k]
               /\ negSrc[k].epoch < epoch[k]
               /\ negativeFriendCache.m[k].expiresAt = negSrc[k].storedAt + NegTTL

\* a late call found the negative entry expired and was allowed
C9_Witness ==
    \E p \in Procs :
      /\ Returned(p) /\ Late(p) /\ Allowed(p)
      /\ negativeFriendCache.m[email[p]] # NoEntry

\* C10 as claimed: the two caches never both hold a fresh entry of one key
C10_Original == \A k \in Keys : ~BothFresh(k)

\* C10 as amended: the two caches hold a fresh entry of one key together
\* only when the identity's remote membership changed between the remote
\* answer behind the negative entry and the one behind the positive entry
C10_ExclusiveUnlessChanged ==
    \A k \in Keys : BothFresh(k) => negSrc[k].epoch # posSrc[k]

C10_Witness ==
    \E k \in Keys : BothFresh(k) /\ negSrc[k].epoch # posSrc[k]

\* C7 as claimed: two consecutive checks start period + latency apart
C7_Original ==
    prevStart >= 0 => checkStart - prevStart = period + prevLatency

\* C7 as amended: two consecutive checks start max(period, latency) apart:
\* the timer runs while the check does, and is reset when it has fired
C7_TimerCadence ==
    prevStart >= 0 => checkStart - prevStart = Max(period, prevLatency)

\* a check that took longer than the period, and the next one has started
C7_Witness == prevStart >= 0 /\ prevLatency > period
====
